---- MODULE Spec2Model ----
(***************************************************************************)
(* A model of SVGInjector (src/index.js): the SVG cache with its request   *)
(* queue (loadSvg, queueRequest, processRequestQueue), the injection       *)
(* routine (SVGInjector) with its identifier rewriting and script          *)
(* evaluation, and the JavaScript run-to-completion scheduling they run    *)
(* under (one call stack, a FIFO of zero-delay timers, XMLHttpRequest      *)
(* completion events).                                                     *)
(*                                                                         *)
(* Strings the code inspects (locators, identifiers, attribute values) are *)
(* tuples of one-character strings, so that the regular expression test,   *)
(* the concatenation of the ordinal and the substring selector are         *)
(* computed, not assumed.                                                  *)
(***************************************************************************)
EXTENDS Integers, Sequences, FiniteSets, TLC

\* ------------------------------------------------------------------ bounds

\* Placeholder elements of the page.
NumEls == 2
\* Calls of SVGInjector in one behaviour (top-level and nested ones together).
MaxCalls == 2

Els == 1 .. NumEls

\* ----------------------------------------------------------------- strings

Last(s) == s[Len(s)]

Lower(ch) ==
  CASE ch = "S" -> "s"
    [] ch = "V" -> "v"
    [] ch = "G" -> "g"
    [] OTHER -> ch

\* s.indexOf(sub) !== -1 for a non-empty sub; the CSS selector [attr*=""]
\* matches nothing, so the empty string is contained in no value.
Contains(s, sub) ==
  /\ Len(sub) > 0
  /\ \E i \in 1 .. (Len(s) - Len(sub) + 1) : SubSeq(s, i, i + Len(sub) - 1) = sub

\* (/\.svg/i).test(imgUrl): an unanchored, case-insensitive search.
TestSvg(imgUrl) ==
  Contains([i \in DOMAIN imgUrl |-> Lower(imgUrl[i])], <<".", "s", "v", "g">>)

\* The locator ends in .svg (case-insensitively): what the regular expression
\* would test with a trailing $.
EndsInSvg(imgUrl) ==
  /\ Len(imgUrl) >= 4
  /\ [i \in 1 .. 4 |-> Lower(imgUrl[Len(imgUrl) - 4 + i])] = <<".", "s", "v", "g">>

Digit(d) ==
  CASE d = 0 -> "0" [] d = 1 -> "1" [] d = 2 -> "2" [] d = 3 -> "3"
    [] d = 4 -> "4" [] d = 5 -> "5" [] d = 6 -> "6" [] d = 7 -> "7"
    [] d = 8 -> "8" [] OTHER -> "9"

RECURSIVE NumberToString(_)
\* String(n) of a non-negative integer, as '-' + injectCount concatenates it.
NumberToString(n) ==
  IF n < 10 THEN <<Digit(n)>> ELSE NumberToString(n \div 10) \o <<Digit(n % 10)>>

\* The locators a placeholder's data-src may hold.
LocA == <<"a", ".", "s", "v", "g">>
LocB == <<"b", ".", "S", "V", "G", "z">>
LocPng == <<"i", ".", "p", "n", "g">>
Locators == {LocA, LocB, LocPng}

\* -------------------------------------------------------------- documents

\* iriElementsAndProperties, in the order Object.keys enumerates it.
iriElementsAndProperties ==
  << [element |-> "clipPath",       properties |-> {"clip-path"}],
     [element |-> "color-profile",  properties |-> {"color-profile"}],
     [element |-> "cursor",         properties |-> {"cursor"}],
     [element |-> "filter",         properties |-> {"filter"}],
     [element |-> "linearGradient", properties |-> {"fill", "stroke"}],
     [element |-> "marker",         properties |-> {"marker", "marker-start", "marker-mid", "marker-end"}],
     [element |-> "mask",           properties |-> {"mask"}],
     [element |-> "pattern",        properties |-> {"fill", "stroke"}],
     [element |-> "radialGradient", properties |-> {"fill", "stroke"}] >>

\* 'url(#' + newId + ')'
UrlRef(id) == <<"u", "r", "l", "(", "#">> \o id \o <<")">>

\* An SVG tree, as far as the code reads or writes it:
\*   els     the elements with an id attribute: tag, id, and whether the
\*           element lies under a defs element;
\*   attrs   the attribute instances of the tree: name and value;
\*   scripts the script elements in document order: type attribute ("" when
\*           unset) and whether the element is a direct child of the root;
\*   fit     width/height/preserveAspectRatio have been set by the injector.
EmptyTree == [els |-> <<>>, attrs |-> <<>>, scripts |-> <<>>, fit |-> FALSE]

TreePlain ==
  [els |-> << [tag |-> "clipPath", id |-> <<"c">>, inDefs |-> TRUE] >>,
   attrs |-> << [name |-> "clip-path", value |-> UrlRef(<<"c">>)] >>,
   scripts |-> << [type |-> "text/plain", direct |-> TRUE] >>,
   fit |-> FALSE]

TreeScripts ==
  [els |-> << [tag |-> "clipPath", id |-> <<"c">>, inDefs |-> TRUE],
              [tag |-> "mask", id |-> <<"m">>, inDefs |-> FALSE] >>,
   attrs |-> << [name |-> "clip-path", value |-> UrlRef(<<"c">>)],
                [name |-> "mask", value |-> UrlRef(<<"m">>)] >>,
   scripts |-> << [type |-> "", direct |-> TRUE],
                  [type |-> "application/javascript", direct |-> TRUE] >>,
   fit |-> FALSE]

TreeNested ==
  [els |-> << [tag |-> "linearGradient", id |-> <<"g">>, inDefs |-> TRUE] >>,
   attrs |-> << [name |-> "fill", value |-> UrlRef(<<"g">>)] >>,
   scripts |-> << [type |-> "application/ecmascript", direct |-> FALSE] >>,
   fit |-> FALSE]

\* Two clip paths under defs, the identifier of the first a substring of the
\* identifier of the second, each referenced once; no script.
TreeSubstring ==
  [els |-> << [tag |-> "clipPath", id |-> <<"c">>, inDefs |-> TRUE],
              [tag |-> "clipPath", id |-> <<"c", "c">>, inDefs |-> TRUE] >>,
   attrs |-> << [name |-> "clip-path", value |-> UrlRef(<<"c">>)],
                [name |-> "clip-path", value |-> UrlRef(<<"c", "c">>)] >>,
   scripts |-> <<>>,
   fit |-> FALSE]

\* The documents a server may answer with.
Trees == {TreePlain, TreeScripts, TreeNested, TreeSubstring}

\* referencingElements[j].setAttribute(property, 'url(#' + newId + ')') for
\* every attribute of one of the properties whose value contains currentId.
RewriteReferences(attrs, properties, currentId, newId) ==
  [j \in DOMAIN attrs |->
     IF attrs[j].name \in properties /\ Contains(attrs[j].value, currentId)
     THEN [attrs[j] EXCEPT !.value = UrlRef(newId)]
     ELSE attrs[j]]

RECURSIVE RewriteElements(_, _, _, _)
\* The loop over elementDefs = svg.querySelectorAll('defs ' + element + '[id]')
\* from its i-th candidate on.
RewriteElements(tree, key, i, count) ==
  IF i > Len(tree.els) THEN tree
  ELSE IF tree.els[i].tag = key.element /\ tree.els[i].inDefs
  THEN LET currentId == tree.els[i].id
           newId == currentId \o <<"-">> \o NumberToString(count)
       IN RewriteElements(
            [tree EXCEPT !.attrs = RewriteReferences(@, key.properties, currentId, newId),
                         !.els[i].id = newId],
            key, i + 1, count)
  ELSE RewriteElements(tree, key, i + 1, count)

RECURSIVE RewriteKeys(_, _, _)
\* Object.keys(iriElementsAndProperties).forEach(...) from its k-th key on.
RewriteKeys(tree, k, count) ==
  IF k > Len(iriElementsAndProperties) THEN tree
  ELSE RewriteKeys(RewriteElements(tree, iriElementsAndProperties[k], 1, count), k + 1, count)

\* The identifier rewriting of one injection, with injectCount as it is read.
RewriteIds(tree, count) == RewriteKeys(tree, 1, count)

\* !scriptType || 'application/ecmascript' || 'application/javascript'
IsJavascript(scriptType) ==
  scriptType \in {"", "application/ecmascript", "application/javascript"}

\* The identifiers of the elements under defs of the categories the rewriting covers.
Categories == {iriElementsAndProperties[k].element : k \in DOMAIN iriElementsAndProperties}

DefsIds(tree) ==
  {tree.els[i].id : i \in {j \in DOMAIN tree.els : tree.els[j].inDefs /\ tree.els[j].tag \in Categories}}

\* ------------------------------------------------------------------ values

\* A JavaScript value as the callbacks receive it: undefined, null, a string
\* (a message text and the value concatenated to it), an SVG node or a
\* placeholder element (by identity).
Undefined == [t |-> "undefined", text |-> "", arg |-> <<>>, id |-> 0]
Null == [t |-> "null", text |-> "", arg |-> <<>>, id |-> 0]
String(text, arg) == [t |-> "string", text |-> text, arg |-> arg, id |-> 0]
NodeRef(nid) == [t |-> "node", text |-> "", arg |-> <<>>, id |-> nid]
ElementRef(e) == [t |-> "element", text |-> "", arg |-> <<>>, id |-> e]

\* A node: its identity and its tree. No node has identity 0.
NoNode == [nid |-> 0, tree |-> EmptyTree]

\* What loadSvg hands to its callback: a value and, for a node, the node.
Loaded(node) == [val |-> NodeRef(node.nid), node |-> node]
Failure(val) == [val |-> val, node |-> NoNode]

MsgNonSvg == "Attempted to inject a file with a non-svg extension: "
MsgNoSupport == "This browser does not support SVG and no PNG fallback was defined."
MsgNoXhr == "Browser does not support XMLHttpRequest"
MsgUnableToLoad == "Unable to load SVG file: "
MsgLocalNote == "Note: SVG injection ajax calls do not work locally without adjusting security setting in your browser. Or consider using a local webserver."
MsgUnableToParse == "Unable to parse SVG file: "
MsgProblem == "There was a problem injecting the SVG: "

\* The values of the evalScripts argument; "" stands for an absent one.
Policies == {"", "always", "once", "never"}

\* What an XMLHttpRequest may complete with (readyState 4): the status, the
\* kind of responseXML (null, a Document, another object), whether
\* DOMParser parses responseText, and the document received. One response
\* for every path of onreadystatechange: the fields a path does not read
\* are held fixed.
Response(status, responseXML, parses, tree) ==
  [status |-> status, responseXML |-> responseXML, parses |-> parses, tree |-> tree]

Responses ==
  {Response(404, "Document", TRUE, TreePlain),
   Response(200, "null", TRUE, TreePlain),
   Response(200, "other", FALSE, TreePlain),
   Response(500, "Document", TRUE, TreePlain)}
  \cup {Response(200, "Document", TRUE, t) : t \in Trees}
  \cup {Response(200, "other", TRUE, t) : t \in Trees}
  \cup {Response(0, "Document", TRUE, t) : t \in Trees}

\* ------------------------------------------------------------------- state

VARIABLES
  isLocal,           \* window.location.protocol === 'file:'
  hasSvgSupport,     \* document.implementation.hasFeature(...)
  hasXHR,            \* window.XMLHttpRequest is defined
  svgCache,          \* url -> undefined | {} (loading) | the cached root node
  requestQueue,      \* url -> the queued callbacks, each named by its call
  injectedElements,  \* the array of elements being injected; 0 is a deleted slot
  injectCount,       \* the ordinal counter
  ranScripts,        \* url -> whether scripts of the url have been run
  xhr,               \* the XMLHttpRequests created: url, creating call, readyState, status
  timers,            \* the pending setTimeout(..., 0) tasks, in firing order
  stack,             \* the injections whose scripts are being run, innermost last
  elem,              \* the placeholder elements: src and style attributes, whether
                     \* it has a parent, the node that replaced it (0: none)
  calls,             \* every call of SVGInjector, with what it has done so far:
                     \*   el, url, policy  its arguments (policy with its default)
                     \*   log     the invocations of its result callback
                     \*   st      returned | loading | failed | running | done | threw
                     \*   loaded  how often its loadSvg callback received a node
                     \*   sync    whether it received it before loadSvg returned
                     \*   svg     the node it received, as processed so far
                     \*   ord     the injectCount its identifiers were rewritten with
                     \*   ran     how many of its scripts have been started
  nextNid            \* the identity the next created node gets

env == <<isLocal, hasSvgSupport, hasXHR>>
vars == <<isLocal, hasSvgSupport, hasXHR, svgCache, requestQueue, injectedElements,
          injectCount, ranScripts, xhr, timers, stack, elem, calls, nextNid>>

\* The program state as one value, for the operators that model functions.
State ==
  [svgCache |-> svgCache, requestQueue |-> requestQueue,
   injectedElements |-> injectedElements, injectCount |-> injectCount,
   ranScripts |-> ranScripts, xhr |-> xhr, timers |-> timers, stack |-> stack,
   elem |-> elem, calls |-> calls, nextNid |-> nextNid]

Becomes(S) ==
  /\ svgCache' = S.svgCache
  /\ requestQueue' = S.requestQueue
  /\ injectedElements' = S.injectedElements
  /\ injectCount' = S.injectCount
  /\ ranScripts' = S.ranScripts
  /\ xhr' = S.xhr
  /\ timers' = S.timers
  /\ stack' = S.stack
  /\ elem' = S.elem
  /\ calls' = S.calls
  /\ nextNid' = S.nextNid
  /\ UNCHANGED env

Init ==
  /\ isLocal \in BOOLEAN
  /\ hasSvgSupport \in BOOLEAN
  /\ hasXHR \in BOOLEAN
  /\ svgCache = [u \in Locators |-> [st |-> "undefined", node |-> NoNode]]
  /\ requestQueue = [u \in Locators |-> <<>>]
  /\ injectedElements = <<>>
  /\ injectCount = 0
  /\ ranScripts = [u \in Locators |-> FALSE]
  /\ xhr = <<>>
  /\ timers = <<>>
  /\ stack = <<>>
  /\ elem = [e \in Els |-> [src |-> "original", style |-> "", parent |-> TRUE, replacedBy |-> 0]]
  /\ calls = <<>>
  /\ nextNid = 1

\* --------------------------------------------------------------- functions

\* The caller's result callback, invoked by call c with (err, res): the
\* invocation is recorded in the call's log.
Callback(S, c, err, res) ==
  [S EXCEPT !.calls[c].log = Append(@, [err |-> err, res |-> res])]

\* An exception leaves the injection of call c where it is.
Throw(S, c) == [S EXCEPT !.calls[c].st = "threw"]

\* injectedElements.indexOf(el) !== -1
IsInjecting(arr, e) == \E i \in DOMAIN arr : arr[i] = e

\* delete injectedElements[injectedElements.indexOf(el)]: the slot of the
\* first occurrence is emptied, the array keeps its length.
DeleteElement(arr, e) ==
  IF IsInjecting(arr, e)
  THEN LET i == CHOOSE j \in DOMAIN arr :
                  arr[j] = e /\ \A k \in 1 .. (j - 1) : arr[k] # e
       IN [arr EXCEPT ![i] = 0]
  ELSE arr

\* A cloneSvg that returns the node it is given.
cloneSvgSame(sourceSvg, fresh) == sourceSvg

\* cloneSvg: sourceSvg.cloneNode(true) is a new node (identity fresh) holding
\* a copy of the tree.
cloneSvg(sourceSvg, fresh) == [sourceSvg EXCEPT !.nid = fresh]

queueRequest(S, url, c) == [S EXCEPT !.requestQueue[url] = Append(@, c)]

\* A processRequestQueue whose loop stops one callback early.
processRequestQueueShort(S, url) ==
  [S EXCEPT !.timers =
     @ \o [i \in 1 .. (Len(S.requestQueue[url]) - 1) |-> [url |-> url, index |-> i]]]

\* A processRequestQueue that sets the timers from the last callback to the first.
processRequestQueueReversed(S, url) ==
  [S EXCEPT !.timers =
     @ \o [i \in 1 .. Len(S.requestQueue[url]) |->
             [url |-> url, index |-> Len(S.requestQueue[url]) + 1 - i]]]

\* processRequestQueue: one zero-delay timer per callback queued now, each
\* remembering its index.
processRequestQueue(S, url) ==
  [S EXCEPT !.timers =
     @ \o [i \in 1 .. Len(S.requestQueue[url]) |-> [url |-> url, index |-> i]]]

\* The end of the injection callback: the style workaround (which changes no
\* text), el.parentNode.replaceChild(svg, el), which throws a TypeError when
\* el has no parent, the release of the element, the increment, the callback.
ReplaceElement(S, c) ==
  LET e == S.calls[c].el
  IN IF ~S.elem[e].parent
     THEN Throw(S, c)
     ELSE Callback(
            [S EXCEPT !.elem[e].parent = FALSE,
                      !.elem[e].replacedBy = S.calls[c].svg.nid,
                      !.injectedElements = DeleteElement(@, e),
                      !.injectCount = @ + 1,
                      !.calls[c].st = "done"],
            c, Null, NodeRef(S.calls[c].svg.nid))

\* evalScripts === 'always' || (evalScripts === 'once' && !ranScripts[imgUrl])
ShouldRun(S, c) ==
  \/ S.calls[c].policy = "always"
  \/ S.calls[c].policy = "once" /\ ~S.ranScripts[S.calls[c].url]

\* The callback SVGInjector passes to loadSvg, for call c, up to the first
\* script it runs: an error or undefined is forwarded; a node is stretched,
\* its identifiers rewritten with injectCount as it is now, its javascript
\* script elements removed by svg.removeChild (which throws for a script that
\* is no child of the root); then the scripts start, or the element is replaced.
OnLoaded(S, c, svg, sync) ==
  IF svg.val.t \in {"undefined", "string"}
  THEN Callback([S EXCEPT !.calls[c].st = "failed"], c, svg.val, Undefined)
  ELSE LET tree == RewriteIds([svg.node.tree EXCEPT !.fit = TRUE], S.injectCount)
           IsJs(x) == IsJavascript(x.type)
           IsOther(x) == ~IsJavascript(x.type)
           scriptsToEval == SelectSeq(tree.scripts, IsJs)
           pruned == [tree EXCEPT !.scripts = SelectSeq(@, IsOther)]
           S1 == [S EXCEPT !.calls[c].svg = [nid |-> svg.node.nid, tree |-> pruned],
                           !.calls[c].ord = S.injectCount,
                           !.calls[c].loaded = @ + 1,
                           !.calls[c].sync = sync]
       IN IF \E k \in DOMAIN scriptsToEval : ~scriptsToEval[k].direct
          THEN Throw(S1, c)
          ELSE IF Len(scriptsToEval) > 0 /\ ShouldRun(S, c)
          THEN [S1 EXCEPT !.stack = Append(@, [call |-> c, l |-> 1, len |-> Len(scriptsToEval)]),
                          !.calls[c].st = "running",
                          !.calls[c].ran = 1]
          ELSE ReplaceElement(S1, c)

\* A SendRequest that does not seed the cache.
SendRequestUnseeded(S, c, url) ==
  [queueRequest(S, url, c) EXCEPT
     !.xhr = Append(@, [url |-> url, by |-> c, readyState |-> 1, status |-> 0])]

\* The branch of loadSvg for a url the cache does not hold: the cache is
\* seeded with {}, the callback queued, an XMLHttpRequest created and sent.
SendRequest(S, c, url) ==
  LET seeded == [S EXCEPT !.svgCache[url].st = "loading"]
      queued == queueRequest(seeded, url, c)
  IN [queued EXCEPT !.xhr = Append(@, [url |-> url, by |-> c, readyState |-> 1, status |-> 0])]

\* A loadSvg that fetches a cached url again.
loadSvgRefetch(S, c, url) ==
  IF S.svgCache[url].st = "loading"
  THEN queueRequest(S, url, c)
  ELSE IF ~hasXHR
       THEN OnLoaded(S, c, Failure(String(MsgNoXhr, <<>>)), TRUE)
       ELSE SendRequest(S, c, url)

\* loadSvg(url, callback), callback being the injection callback of call c.
loadSvg(S, c, url) ==
  IF S.svgCache[url].st # "undefined"
  THEN IF S.svgCache[url].st = "svg"
       THEN OnLoaded([S EXCEPT !.nextNid = @ + 1], c,
                     Loaded(cloneSvg(S.svgCache[url].node, S.nextNid)), TRUE)
       ELSE queueRequest(S, url, c)
  ELSE IF ~hasXHR
       THEN OnLoaded(S, c, Failure(String(MsgNoXhr, <<>>)), TRUE)
       ELSE SendRequest(S, c, url)

\* The record of a new call of SVGInjector.
NewCall(e, imgUrl, evalScripts) ==
  [el |-> e, url |-> imgUrl,
   policy |-> IF evalScripts = "" THEN "always" ELSE evalScripts,
   log |-> <<>>, st |-> "returned", ord |-> -1, ran |-> 0, loaded |-> 0,
   svg |-> NoNode, sync |-> FALSE]

\* SVGInjector without SVG support: the png fallback, or an error.
Fallback(S, c, e, pngFallback) ==
  IF pngFallback
  THEN Callback([S EXCEPT !.elem[e].style = "width: 100%; height: 100%;",
                          !.elem[e].src = "png"],
                c, Null, ElementRef(e))
  ELSE Callback(S, c, String(MsgNoSupport, <<>>), Undefined)

\* A StartInjection that does not look at injectedElements.
StartInjectionUnchecked(S, c, e, imgUrl) ==
  loadSvg([S EXCEPT !.injectedElements = Append(@, e),
                    !.elem[e].src = "",
                    !.calls[c].st = "loading"],
          c, imgUrl)

\* SVGInjector from the check of injectedElements on.
StartInjection(S, c, e, imgUrl) ==
  IF IsInjecting(S.injectedElements, e)
  THEN S
  ELSE loadSvg([S EXCEPT !.injectedElements = Append(@, e),
                         !.elem[e].src = "",
                         !.calls[c].st = "loading"],
               c, imgUrl)

\* An SVGInjector that registers the element and clears its src before it
\* looks at the locator.
SVGInjectorEager(S, e, imgUrl, pngFallback, evalScripts) ==
  LET c == Len(S.calls) + 1
      S0 == [S EXCEPT !.calls = Append(@, NewCall(e, imgUrl, evalScripts)),
                      !.injectedElements = Append(@, e),
                      !.elem[e].src = ""]
  IN IF ~TestSvg(imgUrl)
     THEN Callback(S0, c, String(MsgNonSvg, imgUrl), Undefined)
     ELSE IF ~hasSvgSupport
     THEN Fallback(S0, c, e, pngFallback)
     ELSE loadSvg([S0 EXCEPT !.calls[c].st = "loading"], c, imgUrl)

\* SVGInjector(el, evalScripts, callback) with el = e, whose data-src is
\* imgUrl and whose data-png is set iff pngFallback. The call is recorded as
\* calls[c], c the next index.
SVGInjector(S, e, imgUrl, pngFallback, evalScripts) ==
  LET c == Len(S.calls) + 1
      S0 == [S EXCEPT !.calls = Append(@, NewCall(e, imgUrl, evalScripts))]
  IN IF ~TestSvg(imgUrl)
     THEN Callback(S0, c, String(MsgNonSvg, imgUrl), Undefined)
     ELSE IF ~hasSvgSupport
     THEN Fallback(S0, c, e, pngFallback)
     ELSE StartInjection(S0, c, e, imgUrl)

\* A LoadFailed that reports the parse message.
LoadFailedAsParse(S, c, url) ==
  OnLoaded(OnLoaded(S, c, Failure(String(MsgUnableToParse, url)), FALSE),
           c, Failure(Undefined), FALSE)

\* The branch of onreadystatechange for status 404 or a null responseXML:
\* the message, the note when the page is local, and a call without argument.
LoadFailed(S, c, url) ==
  LET first == OnLoaded(S, c, Failure(String(MsgUnableToLoad, url)), FALSE)
      second == IF isLocal
                THEN OnLoaded(first, c, Failure(String(MsgLocalNote, <<>>)), FALSE)
                ELSE first
  IN OnLoaded(second, c, Failure(Undefined), FALSE)

\* httpRequest.onreadystatechange at readyState 4, for the i-th request.
\* DOMParser is taken to exist: a browser without it has no SVG support
\* either (src/index.js:102), and no request is made there.
onreadystatechange(S, i, r) ==
  LET url == S.xhr[i].url
      c == S.xhr[i].by
      S0 == [S EXCEPT !.xhr[i] = [@ EXCEPT !.readyState = 4, !.status = r.status]]
      cached == [S0 EXCEPT !.svgCache[url] = [st |-> "svg", node |-> [nid |-> S.nextNid, tree |-> r.tree]],
                           !.nextNid = @ + 1]
  IN IF r.status = 404 \/ r.responseXML = "null"
     THEN LoadFailed(S0, c, url)
     ELSE IF r.status = 200 \/ (isLocal /\ r.status = 0)
     THEN IF r.responseXML = "Document"
          THEN processRequestQueue(cached, url)
          ELSE IF ~r.parses
          THEN OnLoaded(S0, c, Failure(String(MsgUnableToParse, url)), FALSE)
          ELSE processRequestQueue(cached, url)
     ELSE OnLoaded(S0, c, Failure(String(MsgProblem, NumberToString(r.status))), FALSE)

\* The task of one timer of processRequestQueue:
\* requestQueue[url][index](cloneSvg(svgCache[url])).
TimerTask(S, t) ==
  OnLoaded([S EXCEPT !.nextNid = @ + 1], S.requestQueue[t.url][t.index],
           Loaded(cloneSvg(S.svgCache[t.url].node, S.nextNid)), FALSE)

\* The innermost running script returns: the next script of the injection
\* starts, or, after the last, ranScripts[imgUrl] = true and the element is
\* replaced.
ScriptReturns(S) ==
  LET f == Last(S.stack)
      c == f.call
  IN IF f.l < f.len
     THEN [S EXCEPT !.stack[Len(S.stack)].l = @ + 1, !.calls[c].ran = @ + 1]
     ELSE ReplaceElement(
            [S EXCEPT !.stack = SubSeq(@, 1, Len(@) - 1),
                      !.ranScripts[S.calls[c].url] = TRUE],
            c)

\* The innermost running script throws: new Function(...)(window) is not
\* guarded, so the injection callback is left at once.
ScriptThrows(S) ==
  Throw([S EXCEPT !.stack = SubSeq(@, 1, Len(@) - 1)], Last(S.stack).call)

\* ----------------------------------------------------------------- actions

\* The elements that have been passed to SVGInjector.
Used == {calls[c].el : c \in DOMAIN calls}

\* A call of SVGInjector: by the page when no script runs, else by the
\* innermost running script (scripts are code of the SVG file and may call
\* anything, the injector included). The placeholders are alike until they
\* are used, so a call takes a used one or the first unused one.
Inject ==
  /\ Len(calls) < MaxCalls
  /\ \E e \in Els, imgUrl \in Locators, pngFallback \in BOOLEAN, evalScripts \in Policies :
       /\ \A d \in Els : d < e => d \in Used
       /\ Becomes(SVGInjector(State, e, imgUrl, pngFallback, evalScripts))

\* An XMLHttpRequest completes. Events are handled when the stack is empty.
HttpComplete ==
  /\ stack = <<>>
  /\ \E i \in DOMAIN xhr, r \in Responses :
       /\ xhr[i].readyState # 4
       /\ Becomes(onreadystatechange(State, i, r))

\* The earliest pending timer fires.
TimerFire ==
  /\ stack = <<>>
  /\ timers # <<>>
  /\ Becomes(TimerTask([State EXCEPT !.timers = Tail(@)], Head(timers)))

ScriptReturn ==
  /\ stack # <<>>
  /\ Becomes(ScriptReturns(State))

ScriptThrow ==
  /\ stack # <<>>
  /\ Becomes(ScriptThrows(State))

\* The page removes from the document a placeholder that is being injected.
\* Nothing reads the parent before the injection callback receives its node,
\* so the removal is taken at the last moment: when the timer of the
\* element's injection is the next to fire.
Detach ==
  \E e \in Els :
    /\ stack = <<>>
    /\ timers # <<>>
    /\ calls[requestQueue[Head(timers).url][Head(timers).index]].el = e
    /\ elem[e].parent
    /\ elem' = [elem EXCEPT ![e].parent = FALSE]
    /\ UNCHANGED <<env, svgCache, requestQueue, injectedElements, injectCount,
                   ranScripts, xhr, timers, stack, calls, nextNid>>

Next ==
  \/ Inject
  \/ HttpComplete
  \/ TimerFire
  \/ ScriptReturn
  \/ ScriptThrow
  \/ Detach

Spec == Init /\ [][Next]_vars

\* The event loop runs every pending timer task, and a running script ends
\* (by returning or by throwing): weak fairness of TimerFire and of
\* ScriptReturn \/ ScriptThrow, written out with the state predicates that
\* say when these actions are enabled (each of them changes the state:
\* TimerFire removes a timer, the other two change the stack).
TimerFireEnabled == stack = <<>> /\ timers # <<>>

ScriptEnabled == stack # <<>>

FairSpec ==
  /\ Spec
  /\ ([]<>(~TimerFireEnabled) \/ []<><<TimerFire>>_vars)
  /\ ([]<>(~ScriptEnabled) \/ []<><<ScriptReturn \/ ScriptThrow>>_vars)

\* ------------------------------------------------------------------ claims

\* The XMLHttpRequests created for a url.
Requests(u) == {i \in DOMAIN xhr : xhr[i].url = u}

\* The fetch of u has completed without filling the cache.
FetchFailed(u) ==
  /\ svgCache[u].st = "loading"
  /\ \E i \in Requests(u) : xhr[i].readyState = 4

\* C1: for every url, however many calls of loadSvg arrive while the url is
\* not resolved, one XMLHttpRequest is created for it: by the call that is
\* first in the url's queue; every other waiting call is only queued.
C1_OneFetchPerKey ==
  \A u \in Locators :
    /\ Cardinality(Requests(u)) <= 1
    /\ requestQueue[u] # <<>> =>
         /\ Cardinality(Requests(u)) = 1
         /\ \A i \in Requests(u) : xhr[i].by = requestQueue[u][1]
    /\ \A c \in DOMAIN calls :
         (calls[c].url = u /\ calls[c].st = "loading") =>
           \E k \in DOMAIN requestQueue[u] : requestQueue[u][k] = c

\* Two calls wait for one url whose request is still in flight.
C1_Witness ==
  \E u \in Locators :
    /\ Len(requestQueue[u]) >= 2
    /\ svgCache[u].st = "loading"
    /\ \E i \in Requests(u) : xhr[i].readyState # 4

\* Trees with the same elements, attributes and fit, whatever their ids,
\* attribute values and scripts.
SameShape(t1, t2) ==
  /\ [i \in DOMAIN t1.els |-> t1.els[i].tag] = [i \in DOMAIN t2.els |-> t2.els[i].tag]
  /\ [i \in DOMAIN t1.attrs |-> t1.attrs[i].name] = [i \in DOMAIN t2.attrs |-> t2.attrs[i].name]

\* The loadSvg callback of call c has been invoked once with a clone of the
\* node cached for u: a node of its own with the cached node's content.
ServedClone(u, c) ==
  /\ calls[c].loaded = 1
  /\ calls[c].svg.nid # 0
  /\ calls[c].svg.nid # svgCache[u].node.nid
  /\ SameShape(calls[c].svg.tree, svgCache[u].node.tree)

\* C2: once the fetch of a url has succeeded, every callback queued for it is
\* eventually invoked with a clone of the loaded node, and none is invoked
\* twice: at any time each queued callback has been served or has its timer
\* pending, and again and again (a served callback stays served, and the
\* queue of a resolved url does not grow) the callbacks queued for the
\* resolved urls have all been served.
C2_AllQueuedServed ==
  /\ [](\A c \in DOMAIN calls : calls[c].loaded <= 1)
  /\ [](\A u \in Locators :
          svgCache[u].st = "svg" =>
            \A k \in DOMAIN requestQueue[u] :
              \/ ServedClone(u, requestQueue[u][k])
              \/ /\ calls[requestQueue[u][k]].loaded = 0
                 /\ \E t \in DOMAIN timers : timers[t] = [url |-> u, index |-> k])
  /\ []<>(\A u \in Locators :
            svgCache[u].st = "svg" =>
              \A k \in DOMAIN requestQueue[u] : ServedClone(u, requestQueue[u][k]))

\* Two callbacks were queued for one url and both have been served.
C2_Witness ==
  \E u \in Locators :
    /\ svgCache[u].st = "svg"
    /\ Len(requestQueue[u]) >= 2
    /\ \A k \in DOMAIN requestQueue[u] : ServedClone(u, requestQueue[u][k])

\* The injections that replaced their placeholder.
Done == {c \in DOMAIN calls : calls[c].st = "done"}

\* C3: any two successful injections of one resource were rewritten with
\* different values of injectCount, and the identifiers of their elements
\* under defs are disjoint.
C3_DisjointIds ==
  \A c1, c2 \in Done :
    (c1 # c2 /\ calls[c1].url = calls[c2].url) =>
      /\ calls[c1].ord # calls[c2].ord
      /\ DefsIds(calls[c1].svg.tree) \cap DefsIds(calls[c2].svg.tree) = {}

\* The resource cached for u holds javascript script elements.
HasScripts(u) ==
  /\ svgCache[u].st = "svg"
  /\ \E k \in DOMAIN svgCache[u].node.tree.scripts :
       IsJavascript(svgCache[u].node.tree.scripts[k].type)

\* C4: of two successful injections of one resource with scripts, these two
\* being the only injections that ran scripts of it, exactly one ran them
\* when both ask for 'once', and both ran them when both ask for 'always'.
C4_OnceAlways ==
  \A c1, c2 \in Done :
    (/\ c1 # c2
     /\ calls[c1].url = calls[c2].url
     /\ HasScripts(calls[c1].url)
     /\ \A c3 \in DOMAIN calls \ {c1, c2} :
          calls[c3].url = calls[c1].url => calls[c3].ran = 0)
    => /\ (calls[c1].policy = "once" /\ calls[c2].policy = "once")
            => ((calls[c1].ran > 0) # (calls[c2].ran > 0))
       /\ (calls[c1].policy = "always" /\ calls[c2].policy = "always")
            => (calls[c1].ran > 0 /\ calls[c2].ran > 0)

\* C5: every invocation of a result callback reports an error (a first
\* argument that is neither null nor undefined) or a result (a node or an
\* element as second argument), and not both.
C5_ErrorOrResult ==
  \A c \in DOMAIN calls :
    \A j \in DOMAIN calls[c].log :
      (calls[c].log[j].err.t \notin {"null", "undefined"})
        # (calls[c].log[j].res.t \in {"node", "element"})

\* C6: when the fetch of a url has failed, the callback of every call queued
\* for the url has been invoked with the failure.
C6_AllQueuedNotified ==
  \A u \in Locators :
    FetchFailed(u) =>
      \A k \in DOMAIN requestQueue[u] :
        \E j \in DOMAIN calls[requestQueue[u][k]].log :
          calls[requestQueue[u][k]].log[j].err.t = "string"

\* The step is a call of SVGInjector.
IsCall == Len(calls') = Len(calls) + 1

\* C7: a call of SVGInjector that reaches loadSvg for a url whose fetch has
\* failed creates a new XMLHttpRequest for the url.
C7_RetryAfterFailure ==
  [][\A u \in Locators :
       (/\ FetchFailed(u)
        /\ IsCall
        /\ Last(calls').url = u
        /\ Last(calls').st # "returned")
       => Cardinality(Requests(u))' = Cardinality(Requests(u)) + 1]_vars

\* C8: no loadSvg callback receives its node before loadSvg has returned.
C8_NeverSynchronous ==
  \A c \in DOMAIN calls : calls[c].loaded > 0 => ~calls[c].sync

\* The step, a call of SVGInjector for imgUrl, reports the extension error
\* and changes nothing else.
RejectsUnchanged ==
  /\ SubSeq(calls', 1, Len(calls)) = calls
  /\ Last(calls').log = << [err |-> String(MsgNonSvg, Last(calls').url), res |-> Undefined] >>
  /\ Last(calls').st = "returned"
  /\ UNCHANGED <<svgCache, requestQueue, injectedElements, injectCount, ranScripts,
                 xhr, timers, stack, elem, nextNid>>

\* C9 as stated: a call for a locator that does not end in .svg reports the
\* extension error and changes nothing.
C9_NotEndingInSvg ==
  [][(IsCall /\ ~EndsInSvg(Last(calls').url)) => RejectsUnchanged]_vars

\* C9 as amended: a call for a locator that does not contain .svg (in any
\* case) reports the extension error and changes nothing: no request, cache,
\* queues, tracker, counter and elements as they were.
C9_WithoutSvg ==
  [][(IsCall /\ ~TestSvg(Last(calls').url)) => RejectsUnchanged]_vars

\* A call for a locator without .svg has returned, while another injection
\* is in flight.
C9_Witness ==
  \E c \in DOMAIN calls :
    /\ ~TestSvg(calls[c].url)
    /\ calls[c].log # <<>>
    /\ \E i \in DOMAIN xhr : xhr[i].readyState # 4

C11_ScriptThrowIsolated ==
  [][ScriptThrow =>
       LET f == Last(stack)
           c == f.call
           e == calls[c].el
       IN IF f.l < f.len
          THEN /\ calls'[c].st = "running"
               /\ calls'[c].ran = calls[c].ran + 1
          ELSE elem[e].parent =>
                 /\ calls'[c].st = "done"
                 /\ elem'[e].replacedBy = calls[c].svg.nid
                 /\ ~IsInjecting(injectedElements', e)
                 /\ injectCount' = injectCount + 1
                 /\ calls'[c].log # <<>>
                 /\ Last(calls'[c].log) = [err |-> Null, res |-> NodeRef(calls[c].svg.nid)]]_vars

\* The index of the element of tree t that the attribute value v references
\* (v is url(#id) with id the element's identifier); 0 when there is none.
Target(t, v) ==
  IF \E i \in DOMAIN t.els : v = UrlRef(t.els[i].id)
  THEN CHOOSE i \in DOMAIN t.els : v = UrlRef(t.els[i].id)
  ELSE 0

\* The properties that can reference an element of the given tag.
PropertiesOf(tag) ==
  UNION {iriElementsAndProperties[k].properties :
           k \in {n \in DOMAIN iriElementsAndProperties : iriElementsAndProperties[n].element = tag}}

\* C12: in the tree of every injection that had its identifiers rewritten,
\* with ordinal n, every attribute that referenced (in the cached tree it was
\* cloned from) an element under defs by a property that can reference the
\* element's category has the value url(#X-n), X the identifier the element
\* had, the element has the identifier X-n, and every attribute that
\* referenced an element references the same element.
C12_ReferencesFollowIds ==
  \A c \in DOMAIN calls :
    calls[c].ord >= 0 =>
      LET before == svgCache[calls[c].url].node.tree
          after == calls[c].svg.tree
          suffix == <<"-">> \o NumberToString(calls[c].ord)
      IN \A j \in DOMAIN before.attrs :
           LET i == Target(before, before.attrs[j].value)
           IN i # 0 =>
                /\ Target(after, after.attrs[j].value) = i
                /\ (before.els[i].inDefs /\ before.attrs[j].name \in PropertiesOf(before.els[i].tag)) =>
                     /\ after.els[i].id = before.els[i].id \o suffix
                     /\ after.attrs[j].value = UrlRef(before.els[i].id \o suffix)

\* The injection attempts in progress for element e: the calls that wait for
\* their resource or run its scripts.
Attempts(e) ==
  {c \in DOMAIN calls : calls[c].el = e /\ calls[c].st \in {"loading", "running"}}

\* C13: an element is in injectedElements only while an injection attempt for
\* it is in progress: when the attempt has ended, with the element replaced or
\* with an error passed to the result callback, the element has been removed.
C13_TrackedOnlyWhileInjecting ==
  \A e \in Els : IsInjecting(injectedElements, e) => Attempts(e) # {}

\* The state of the cache for url u as a caller observes it: Absent
\* (undefined), Pending ({} with the request in flight), Failed ({} with the
\* request completed) or Ready (the root node).
CacheState(u) ==
  CASE svgCache[u].st = "undefined" -> "Absent"
    [] svgCache[u].st = "svg" -> "Ready"
    [] FetchFailed(u) -> "Failed"
    [] OTHER -> "Pending"

\* C14: in every step the cache state of every url stays as it is or moves
\* from Absent to Pending or from Pending to Ready or Failed; a Ready url keeps
\* its node and no XMLHttpRequest is created for it; the cache is Pending
\* exactly while the one request of the url is in flight.
C14_CacheMovesForward ==
  [][\A u \in Locators :
       /\ \/ CacheState(u)' = CacheState(u)
          \/ CacheState(u) = "Absent" /\ CacheState(u)' = "Pending"
          \/ CacheState(u) = "Pending" /\ CacheState(u)' \in {"Ready", "Failed"}
       /\ CacheState(u) = "Ready" =>
            /\ svgCache'[u] = svgCache[u]
            /\ Requests(u)' = Requests(u)
       /\ CacheState(u)' = "Pending" => Cardinality(Requests(u)') = 1]_vars

\* A url is Ready and a later call for it has been served from the cache.
C14_Witness ==
  \E c \in DOMAIN calls :
    /\ CacheState(calls[c].url) = "Ready"
    /\ calls[c].sync
    /\ calls[c].loaded = 1

\* The loadSvg callback of call c has been invoked.
Invoked(c) == calls[c].loaded > 0 \/ calls[c].st = "failed"

\* C15: the callbacks queued for one url are invoked in the order of the
\* queue: when a queued callback has been invoked, so has every callback
\* queued for the url before it, and the timers pending for a url are those of
\* the callbacks not yet invoked, in the order of the queue.
C15_QueueOrder ==
  \A u \in Locators :
    /\ \A k1, k2 \in DOMAIN requestQueue[u] :
         (k1 < k2 /\ Invoked(requestQueue[u][k2])) => Invoked(requestQueue[u][k1])
    /\ \A t1, t2 \in DOMAIN timers :
         (t1 < t2 /\ timers[t1].url = u /\ timers[t2].url = u)
           => timers[t1].index < timers[t2].index

\* Of two callbacks queued for a loaded url, the first has been invoked and
\* the second is still to come.
C15_Witness ==
  \E u \in Locators :
    /\ svgCache[u].st = "svg"
    /\ Len(requestQueue[u]) >= 2
    /\ Invoked(requestQueue[u][1])
    /\ ~Invoked(requestQueue[u][2])
    /\ timers # <<>>

\* The root nodes the cache holds.
Canonical == {svgCache[u].node.nid : u \in {v \in Locators : svgCache[v].st = "svg"}}

\* The calls whose loadSvg callback has received a node.
Consumers == {c \in DOMAIN calls : calls[c].loaded > 0}

\* C16: no loadSvg callback receives a node the cache holds, on the timer path
\* and on the cache-hit path alike; no two callbacks receive the same node;
\* no cached node replaces a placeholder.
C16_ClonesOnly ==
  /\ \A c \in Consumers :
       /\ calls[c].svg.nid # 0
       /\ calls[c].svg.nid \notin Canonical
       /\ \A d \in Consumers : d # c => calls[d].svg.nid # calls[c].svg.nid
  /\ \A e \in Els : elem[e].replacedBy \notin Canonical

\* One url has served a queued callback (by its timer) and a later call (from
\* the cache), and both have replaced their placeholders.
C16_Witness ==
  \E c, d \in Consumers :
    /\ calls[c].url = calls[d].url
    /\ ~calls[c].sync
    /\ calls[d].sync
    /\ calls[c].st = "done"
    /\ calls[d].st = "done"

\* Call d returned at the check of injectedElements: it passed the tests of
\* the locator and of SVG support and did nothing.
Dropped(d) ==
  /\ TestSvg(calls[d].url)
  /\ hasSvgSupport
  /\ calls[d].st = "returned"

\* C17: a call of SVGInjector for an element that is in injectedElements
\* creates no XMLHttpRequest, queues no callback, sets no timer, and leaves
\* injectedElements, the cache, injectCount, ranScripts and the elements
\* unchanged; it invokes no callback when its locator passes the test. At any
\* time at most one injection is in progress for an element, and at most one
\* injection has replaced it.
C17_DuplicateDropped ==
  /\ [](\A e \in Els :
          /\ Cardinality(Attempts(e)) <= 1
          /\ Cardinality({c \in Done : calls[c].el = e}) <= 1
          /\ Cardinality({i \in DOMAIN injectedElements : injectedElements[i] = e}) <= 1)
  /\ [][(IsCall /\ IsInjecting(injectedElements, Last(calls').el)) =>
          /\ SubSeq(calls', 1, Len(calls)) = calls
          /\ Last(calls').st = "returned"
          /\ Last(calls').loaded = 0
          /\ TestSvg(Last(calls').url) => Last(calls').log = <<>>
          /\ UNCHANGED <<svgCache, requestQueue, injectedElements, injectCount,
                         ranScripts, xhr, timers, stack, elem, nextNid>>]_vars

\* A call was dropped while an injection of its element was in progress, and
\* that injection has replaced the element.
C17_Witness ==
  \E c, d \in DOMAIN calls :
    /\ c < d
    /\ calls[c].el = calls[d].el
    /\ Dropped(d)
    /\ calls[d].log = <<>>
    /\ calls[c].st = "done"
    /\ elem[calls[c].el].replacedBy = calls[c].svg.nid

\* The resource of url u holds a javascript script element that is no child
\* of the root, on which svg.removeChild throws.
HasNestedScript(u) ==
  /\ svgCache[u].st = "svg"
  /\ \E k \in DOMAIN svgCache[u].node.tree.scripts :
       /\ IsJavascript(svgCache[u].node.tree.scripts[k].type)
       /\ ~svgCache[u].node.tree.scripts[k].direct

\* C18: an injection whose placeholder has no parent when the injection
\* callback comes to the replacement (no script of it throwing before) ends
\* as one with a parent does, but for the replacement: the element leaves
\* injectedElements and the result callback is invoked with (null, clone).
C18_NoParentTolerated ==
  [][\A c \in DOMAIN calls :
       (/\ calls[c].st \in {"loading", "running"}
        /\ calls'[c].st \notin {"loading", "running", "failed"}
        /\ ~elem[calls[c].el].parent
        /\ ~HasNestedScript(calls[c].url)
        /\ ~ScriptThrow)
       => /\ calls'[c].st = "done"
          /\ ~IsInjecting(injectedElements', calls[c].el)
          /\ calls'[c].log # <<>>
          /\ Last(calls'[c].log) = [err |-> Null, res |-> NodeRef(calls'[c].svg.nid)]]_vars

\* C19: the result callback of every call of SVGInjector is invoked at most
\* once, whatever the call ends with.
C19_CallbackAtMostOnce ==
  \A c \in DOMAIN calls : Len(calls[c].log) <= 1

\* Call c starts to run scripts in the step.
StartsScripts(c) ==
  /\ calls'[c].ran > 0
  /\ c \in DOMAIN calls => calls[c].ran = 0

\* C20: in every step, an injection that has run scripts and runs none any
\* more has ranScripts set for its url, whatever its policy; ranScripts is
\* never cleared, and it is set only at the end of the scripts of an
\* injection with policy 'always' or 'once'; an injection that starts to run
\* scripts has policy 'always' or 'once', and with 'once' no other injection of
\* its url has run a script before.
C20_FlagFollowsExecution ==
  [][/\ \A c \in DOMAIN calls' :
          (calls'[c].ran > 0 /\ calls'[c].st # "running") => ranScripts'[calls'[c].url]
     /\ \A u \in Locators :
          /\ ranScripts[u] => ranScripts'[u]
          /\ (ranScripts'[u] /\ ~ranScripts[u]) =>
               \E c \in DOMAIN calls :
                 /\ calls[c].url = u
                 /\ calls[c].policy \in {"always", "once"}
                 /\ calls[c].st = "running"
                 /\ calls'[c].st # "running"
     /\ \A c \in DOMAIN calls' :
          StartsScripts(c) =>
            /\ calls'[c].policy \in {"always", "once"}
            /\ calls'[c].policy = "once" =>
                 \A d \in DOMAIN calls :
                   (d # c /\ calls[d].url = calls'[c].url) => calls[d].ran = 0]_vars

====
